---- MODULE Spec2Model ----
(***************************************************************************)
(* QoiVisualizer: the QOI chunk analyzer (src/qoi.rs) and the pixel        *)
(* algebra it uses (src/pixel.rs), as a state machine.                     *)
(*                                                                         *)
(* qoi_analyze feeds the pixels of an image one by one to a fresh          *)
(* Analyzer (update), then calls finalize and tallies the histogram.       *)
(* The pixels fed so far are kept in the history variable `fed`; an image *)
(* is any finite pixel sequence, so Finalize may follow any prefix.        *)
(***************************************************************************)
EXTENDS Integers, Sequences, FiniteSets, TLC

VARIABLES
    filesize,   \* Analyzer.filesize
    chunks,     \* Analyzer.chunks (the Vec<QoiChunk> of qoi_analyze)
    px_prev,    \* Analyzer.px_prev
    dict,       \* Analyzer.dict (PixelDict)
    run,        \* Analyzer.run (u16)
    histogram,  \* qoi_analyze's histogram, filled after finalize
    pc,         \* position in qoi_analyze: "feeding", "done", "panicked"
    fed,        \* history: the pixels fed so far, in order, run-length packed
    decided,    \* history: what update did with each pixel, run-length packed
    streak,     \* history: how many trailing pixels equal their predecessor
    mark,       \* history: filesize and chunk count when the streak began
    sub_self,   \* the last call of sub: its left operand
    sub_rhs,    \* the last call of sub: its right operand
    sub_out,    \* the last call of sub: the result of sub_self.sub(sub_rhs)
    pix_in,     \* pixel packing harness: two [u8; 4] channel arrays
    pix_out,    \* pixel packing harness: what new, from, r, g, b, a gave
    img,        \* web.rs Model.img, by the name of the loaded file
    config,     \* web.rs Model.config.visibles
    mailbox,    \* web.rs: messages scheduled by orders and not yet handled
    loads,      \* web.rs: files whose perform_cmd future has not completed
    drawn,      \* web.rs: the image and configuration draw_vis last drew
    handled,    \* web.rs history: the message or future that ran last
    toggled     \* web.rs history: the last toggle if nothing else wrote
                \* config since, with the configuration before it

pixvars == <<pix_in, pix_out>>

webvars == <<img, config, mailbox, loads, drawn, handled, toggled>>

vars == <<filesize, chunks, px_prev, dict, run, histogram, pc,
          fed, decided, streak, mark, sub_self, sub_rhs, sub_out,
          pix_in, pix_out,
          img, config, mailbox, loads, drawn, handled, toggled>>

(***************************************************************************)
(* Bounds of the model.                                                    *)
(***************************************************************************)
MaxLen == 4         \* longest image fed pixel by pixel under Spec
MaxRun == 8260      \* longest streak of repeated pixels under SpecRun
NearRun == 36       \* streak lengths up to here may be ended under SpecRun
TailLen == 2        \* pixels that may follow the streak under SpecRun
MaxMailbox == 2     \* most messages scheduled and not yet handled under SpecWeb
MaxLoads == 1       \* most file loads in flight under SpecWeb

(***************************************************************************)
(* Bit operations on unsigned values of a given width.                     *)
(***************************************************************************)
RECURSIVE BitXor(_, _, _)
BitXor(x, y, w) ==
    IF w = 0 THEN 0
    ELSE (((x % 2) + (y % 2)) % 2) + 2 * BitXor(x \div 2, y \div 2, w - 1)

RECURSIVE BitOr(_, _, _)
BitOr(x, y, w) ==
    IF w = 0 THEN 0
    ELSE (IF (x % 2) = 1 \/ (y % 2) = 1 THEN 1 ELSE 0)
         + 2 * BitOr(x \div 2, y \div 2, w - 1)

RECURSIVE BitAnd(_, _, _)
BitAnd(x, y, w) ==
    IF w = 0 THEN 0
    ELSE (IF (x % 2) = 1 /\ (y % 2) = 1 THEN 1 ELSE 0)
         + 2 * BitAnd(x \div 2, y \div 2, w - 1)

RECURSIVE count_ones(_)
count_ones(x) == IF x = 0 THEN 0 ELSE (x % 2) + count_ones(x \div 2)

Shl(x, n, w) == (x * 2^n) % 2^w      \* x << n on a w-bit unsigned
AsU8(x) == x % 256                   \* `as u8` (truncation)
AsI8(x) == IF (x % 256) >= 128 THEN (x % 256) - 256 ELSE (x % 256)   \* `as i8`
wrapping_sub(x, y) == (x - y) % 256  \* u8::wrapping_sub

(***************************************************************************)
(* QoiPixel(u32).  The 32-bit word is kept as two 16-bit halves, hi =      *)
(* bits 31..16 and lo = bits 15..0, because model values are 32-bit signed.*)
(***************************************************************************)
\* Mutation: red is shifted one bit short and shares a bit with green.
QoiPixel_new_shift7(r, g, b, a) ==
    [hi |-> BitOr(Shl(r, 7, 16), g, 16), lo |-> BitOr(Shl(b, 8, 16), a, 16)]

QoiPixel_new(r, g, b, a) ==
    [hi |-> BitOr(Shl(r, 8, 16), g, 16), lo |-> BitOr(Shl(b, 8, 16), a, 16)]

Px_r(p) == AsU8(p.hi \div 256)       \* (self.0 >> 24) as u8
Px_g(p) == AsU8(p.hi)                \* (self.0 >> 16) as u8
Px_b(p) == AsU8(p.lo \div 256)       \* (self.0 >> 8) as u8
Px_a(p) == AsU8(p.lo)                \* self.0 as u8

QoiPixel_from(rgba) == QoiPixel_new(rgba[1], rgba[2], rgba[3], rgba[4])

\* Mutation: the 2-bit range loses its lowest value.
DIFF_RANGE_2_symmetric == [start |-> -1, end |-> 1]

DIFF_RANGE_2 == [start |-> -2, end |-> 1]

\* Mutation: the 4-bit range loses its lowest value.
DIFF_RANGE_4_symmetric == [start |-> -7, end |-> 7]

DIFF_RANGE_4 == [start |-> -8, end |-> 7]

\* Mutation: the 5-bit range loses its lowest value.
DIFF_RANGE_5_symmetric == [start |-> -15, end |-> 15]

DIFF_RANGE_5 == [start |-> -16, end |-> 15]

in_bounds(range, value) == range.start <= value /\ value <= range.end

(***************************************************************************)
(* PixelDiff: the packed delta encodings.                                  *)
(***************************************************************************)
\* Mutation: the red field is shifted by 3 instead of 4.
diff8_from_biased_shift3(r, g, b) ==
    [tag |-> "Diff8", bits |-> BitOr(BitOr(Shl(r, 3, 8), Shl(g, 2, 8), 8), b, 8)]

diff8_from_biased(r, g, b) ==
    [tag |-> "Diff8", bits |-> BitOr(BitOr(Shl(r, 4, 8), Shl(g, 2, 8), 8), b, 8)]

diff8_from_unbiased(r, g, b) ==
    diff8_from_biased(wrapping_sub(AsU8(r), AsU8(DIFF_RANGE_2.start)),
                      wrapping_sub(AsU8(g), AsU8(DIFF_RANGE_2.start)),
                      wrapping_sub(AsU8(b), AsU8(DIFF_RANGE_2.start)))

diff16_from_biased(r, g, b) ==
    [tag |-> "Diff16",
     bits |-> BitOr(BitOr(Shl(r, 8, 16), Shl(g, 4, 16), 16), b, 16)]

diff16_from_unbiased(r, g, b) ==
    diff16_from_biased(wrapping_sub(AsU8(r), AsU8(DIFF_RANGE_5.start)),
                       wrapping_sub(AsU8(g), AsU8(DIFF_RANGE_4.start)),
                       wrapping_sub(AsU8(b), AsU8(DIFF_RANGE_4.start)))

\* Mutation: the blue field is shifted by 4 instead of 5.
diff24_from_biased_shift4(r, g, b, a) ==
    [tag |-> "Diff24", diff_r |-> r,
     diff_gba |-> BitOr(BitOr(Shl(g, 10, 16), Shl(b, 4, 16), 16), a, 16)]

diff24_from_biased(r, g, b, a) ==
    [tag |-> "Diff24", diff_r |-> r,
     diff_gba |-> BitOr(BitOr(Shl(g, 10, 16), Shl(b, 5, 16), 16), a, 16)]

diff24_from_unbiased(r, g, b, a) ==
    diff24_from_biased(wrapping_sub(AsU8(r), AsU8(DIFF_RANGE_5.start)),
                       wrapping_sub(AsU8(g), AsU8(DIFF_RANGE_5.start)),
                       wrapping_sub(AsU8(b), AsU8(DIFF_RANGE_5.start)),
                       wrapping_sub(AsU8(a), AsU8(DIFF_RANGE_5.start)))

(***************************************************************************)
(* QoiPixel::sub: self - rhs as a DiffOrColor.                             *)
(***************************************************************************)
Color(mask) == [tag |-> "Color", mask |-> mask]

\* Mutation: only a positive delta sets the bit.
NeBit_positive(d) == IF d > 0 THEN 1 ELSE 0

NeBit(d) == IF d # 0 THEN 1 ELSE 0   \* (d != 0) as u8

\* Mutation: the red delta of Diff16 is held to the 4-bit range.
sub_red_range4(self, rhs) ==
    LET dr == AsI8(wrapping_sub(Px_r(self), Px_r(rhs)))
        dg == AsI8(wrapping_sub(Px_g(self), Px_g(rhs)))
        db == AsI8(wrapping_sub(Px_b(self), Px_b(rhs)))
        da == AsI8(wrapping_sub(Px_a(self), Px_a(rhs)))
        mask == BitOr(BitOr(BitOr(Shl(NeBit(dr), 3, 8), Shl(NeBit(dg), 2, 8), 8),
                            Shl(NeBit(db), 1, 8), 8),
                      NeBit(da), 8)
    IN  IF da = 0 /\ in_bounds(DIFF_RANGE_2, dr) /\ in_bounds(DIFF_RANGE_2, dg)
           /\ in_bounds(DIFF_RANGE_2, db)
        THEN diff8_from_unbiased(dr, dg, db)
        ELSE IF da = 0 /\ in_bounds(DIFF_RANGE_4, dr) /\ in_bounds(DIFF_RANGE_4, dg)
                /\ in_bounds(DIFF_RANGE_4, db)
        THEN diff16_from_unbiased(dr, dg, db)
        ELSE IF count_ones(mask) >= 2 /\ in_bounds(DIFF_RANGE_5, dr)
                /\ in_bounds(DIFF_RANGE_5, dg) /\ in_bounds(DIFF_RANGE_5, db)
                /\ in_bounds(DIFF_RANGE_5, da)
        THEN diff24_from_unbiased(dr, dg, db, da)
        ELSE Color(mask)

\* Mutation: Diff24 is taken whatever the number of differing channels.
sub_any_diff24(self, rhs) ==
    LET dr == AsI8(wrapping_sub(Px_r(self), Px_r(rhs)))
        dg == AsI8(wrapping_sub(Px_g(self), Px_g(rhs)))
        db == AsI8(wrapping_sub(Px_b(self), Px_b(rhs)))
        da == AsI8(wrapping_sub(Px_a(self), Px_a(rhs)))
        mask == BitOr(BitOr(BitOr(Shl(NeBit(dr), 3, 8), Shl(NeBit(dg), 2, 8), 8),
                            Shl(NeBit(db), 1, 8), 8),
                      NeBit(da), 8)
    IN  IF da = 0 /\ in_bounds(DIFF_RANGE_2, dr) /\ in_bounds(DIFF_RANGE_2, dg)
           /\ in_bounds(DIFF_RANGE_2, db)
        THEN diff8_from_unbiased(dr, dg, db)
        ELSE IF da = 0 /\ in_bounds(DIFF_RANGE_5, dr) /\ in_bounds(DIFF_RANGE_4, dg)
                /\ in_bounds(DIFF_RANGE_4, db)
        THEN diff16_from_unbiased(dr, dg, db)
        ELSE IF in_bounds(DIFF_RANGE_5, dr)
                /\ in_bounds(DIFF_RANGE_5, dg) /\ in_bounds(DIFF_RANGE_5, db)
                /\ in_bounds(DIFF_RANGE_5, da)
        THEN diff24_from_unbiased(dr, dg, db, da)
        ELSE Color(mask)

\* Mutation: Diff24 is tried before Diff16.
sub_diff24_first(self, rhs) ==
    LET dr == AsI8(wrapping_sub(Px_r(self), Px_r(rhs)))
        dg == AsI8(wrapping_sub(Px_g(self), Px_g(rhs)))
        db == AsI8(wrapping_sub(Px_b(self), Px_b(rhs)))
        da == AsI8(wrapping_sub(Px_a(self), Px_a(rhs)))
        mask == BitOr(BitOr(BitOr(Shl(NeBit(dr), 3, 8), Shl(NeBit(dg), 2, 8), 8),
                            Shl(NeBit(db), 1, 8), 8),
                      NeBit(da), 8)
    IN  IF da = 0 /\ in_bounds(DIFF_RANGE_2, dr) /\ in_bounds(DIFF_RANGE_2, dg)
           /\ in_bounds(DIFF_RANGE_2, db)
        THEN diff8_from_unbiased(dr, dg, db)
        ELSE IF count_ones(mask) >= 2 /\ in_bounds(DIFF_RANGE_5, dr)
                /\ in_bounds(DIFF_RANGE_5, dg) /\ in_bounds(DIFF_RANGE_5, db)
                /\ in_bounds(DIFF_RANGE_5, da)
        THEN diff24_from_unbiased(dr, dg, db, da)
        ELSE IF da = 0 /\ in_bounds(DIFF_RANGE_5, dr) /\ in_bounds(DIFF_RANGE_4, dg)
                /\ in_bounds(DIFF_RANGE_4, db)
        THEN diff16_from_unbiased(dr, dg, db)
        ELSE Color(mask)

sub(self, rhs) ==
    LET dr == AsI8(wrapping_sub(Px_r(self), Px_r(rhs)))
        dg == AsI8(wrapping_sub(Px_g(self), Px_g(rhs)))
        db == AsI8(wrapping_sub(Px_b(self), Px_b(rhs)))
        da == AsI8(wrapping_sub(Px_a(self), Px_a(rhs)))
        mask == BitOr(BitOr(BitOr(Shl(NeBit(dr), 3, 8), Shl(NeBit(dg), 2, 8), 8),
                            Shl(NeBit(db), 1, 8), 8),
                      NeBit(da), 8)
    IN  IF da = 0 /\ in_bounds(DIFF_RANGE_2, dr) /\ in_bounds(DIFF_RANGE_2, dg)
           /\ in_bounds(DIFF_RANGE_2, db)
        THEN diff8_from_unbiased(dr, dg, db)
        ELSE IF da = 0 /\ in_bounds(DIFF_RANGE_5, dr) /\ in_bounds(DIFF_RANGE_4, dg)
                /\ in_bounds(DIFF_RANGE_4, db)
        THEN diff16_from_unbiased(dr, dg, db)
        ELSE IF count_ones(mask) >= 2 /\ in_bounds(DIFF_RANGE_5, dr)
                /\ in_bounds(DIFF_RANGE_5, dg) /\ in_bounds(DIFF_RANGE_5, db)
                /\ in_bounds(DIFF_RANGE_5, da)
        THEN diff24_from_unbiased(dr, dg, db, da)
        ELSE Color(mask)

(***************************************************************************)
(* PixelDict: 64 slots, direct-mapped.                                     *)
(***************************************************************************)
DictSlots == 64

\* Mutation: the slots start as the initial reference pixel.
PixelDict_new_opaque == [h \in 0 .. DictSlots - 1 |-> QoiPixel_new(0, 0, 0, 255)]

PixelDict_new == [h \in 0 .. DictSlots - 1 |-> QoiPixel_new(0, 0, 0, 0)]

\* Mutation: the alpha channel is left out of the hash.
PixelDict_hash_rgb(px) ==
    BitAnd(BitXor(BitXor(Px_r(px), Px_g(px), 8), Px_b(px), 8), 63, 8)

PixelDict_hash(px) ==
    BitAnd(BitXor(BitXor(BitXor(Px_r(px), Px_g(px), 8), Px_b(px), 8), Px_a(px), 8),
           63, 8)

dict_index(d, i) == d[i]                            \* Index<u8> for PixelDict

\* Mutation: the write to the slot is lost.
dict_store_lost(d, i, px) == d

dict_store(d, i, px) == [d EXCEPT ![i] = px]        \* IndexMut<u8> for PixelDict

(***************************************************************************)
(* QoiChunk and the Analyzer of src/qoi.rs.  The Analyzer's methods are    *)
(* operators on the record of its fields; `panicked` records that an       *)
(* unreachable!() arm was entered.                                         *)
(***************************************************************************)
QoiChunk == {"Index", "Run8", "Run16", "Diff8", "Diff16", "Diff24",
             "Color1", "Color2", "Color3", "Color4"}

QOI_HEADER_LEN == 14
QOI_PADDING_LEN == 4
\* Mutation: the longest run is one pixel shorter.
RUN_MAX_early == 32 + 8191

RUN_MAX == 33 + 8191
U16 == 65536

NoPixel == QoiPixel_new(0, 0, 0, 0)

\* Besides the fields of the struct the record carries panicked (an
\* unreachable!() arm was entered) and sub_call (the operands and the result
\* of the most recent px.sub(self.px_prev) made by update).
Analyzer_new ==
    [filesize |-> QOI_HEADER_LEN + QOI_PADDING_LEN,
     chunks   |-> << >>,
     px_prev  |-> QoiPixel_new(0, 0, 0, 255),
     dict     |-> PixelDict_new,
     run      |-> 0,
     panicked |-> FALSE,
     sub_call |-> [self |-> NoPixel, rhs |-> NoPixel, out |-> [tag |-> "none"]]]

\* Mutation: one entry per flushed run instead of one per pixel.
repeat_take_once(chunk, n) == <<chunk>>

repeat_take(chunk, n) == [i \in 1 .. n |-> chunk]

\* Mutation: the short-run range reaches 33.
flush_run_short33(self) ==
    IF self.run = 0 THEN [self EXCEPT !.run = 0]
    ELSE IF 1 <= self.run /\ self.run <= 33
    THEN [self EXCEPT !.filesize = @ + 1,
                      !.chunks = @ \o repeat_take("Run8", self.run),
                      !.run = 0]
    ELSE IF 34 <= self.run /\ self.run <= RUN_MAX
    THEN [self EXCEPT !.filesize = @ + 2,
                      !.chunks = @ \o repeat_take("Run16", self.run),
                      !.run = 0]
    ELSE [self EXCEPT !.panicked = TRUE]

\* Mutation: a long run is charged like a short one.
flush_run_flat(self) ==
    IF self.run = 0 THEN [self EXCEPT !.run = 0]
    ELSE IF 1 <= self.run /\ self.run <= RUN_MAX
    THEN [self EXCEPT !.filesize = @ + 1,
                      !.chunks = @ \o repeat_take(IF self.run <= 32 THEN "Run8"
                                                  ELSE "Run16", self.run),
                      !.run = 0]
    ELSE [self EXCEPT !.panicked = TRUE]

\* Mutation: the counter is not reset after a flush.
flush_run_keep_run(self) ==
    IF self.run = 0 THEN self
    ELSE IF 1 <= self.run /\ self.run <= 32
    THEN [self EXCEPT !.filesize = @ + 1,
                      !.chunks = @ \o repeat_take("Run8", self.run)]
    ELSE IF 33 <= self.run /\ self.run <= RUN_MAX
    THEN [self EXCEPT !.filesize = @ + 2,
                      !.chunks = @ \o repeat_take("Run16", self.run)]
    ELSE [self EXCEPT !.panicked = TRUE]

flush_run(self) ==
    IF self.run = 0 THEN [self EXCEPT !.run = 0]
    ELSE IF 1 <= self.run /\ self.run <= 32
    THEN [self EXCEPT !.filesize = @ + 1,
                      !.chunks = @ \o repeat_take("Run8", self.run),
                      !.run = 0]
    ELSE IF 33 <= self.run /\ self.run <= RUN_MAX
    THEN [self EXCEPT !.filesize = @ + 2,
                      !.chunks = @ \o repeat_take("Run16", self.run),
                      !.run = 0]
    ELSE [self EXCEPT !.panicked = TRUE]

\* The match on px.sub(px_prev) in update: the chunk kind, its byte cost,
\* and whether the unreachable!() arm (a Color with no channel) was taken.
\* Mutation: a Color literal is charged its channel bytes only.
chunk_of_no_tag_byte(d) ==
    IF d.tag = "Diff8" THEN [chunk |-> "Diff8", cost |-> 1, panicked |-> FALSE]
    ELSE IF d.tag = "Diff16" THEN [chunk |-> "Diff16", cost |-> 2, panicked |-> FALSE]
    ELSE IF d.tag = "Diff24" THEN [chunk |-> "Diff24", cost |-> 3, panicked |-> FALSE]
    ELSE LET n == count_ones(d.mask)
         IN  [chunk |-> CASE n = 1 -> "Color1"
                          [] n = 2 -> "Color2"
                          [] n = 3 -> "Color3"
                          [] n = 4 -> "Color4"
                          [] OTHER -> "unreachable",
              cost |-> n,
              panicked |-> n \notin 1 .. 4]

chunk_of(d) ==
    IF d.tag = "Diff8" THEN [chunk |-> "Diff8", cost |-> 1, panicked |-> FALSE]
    ELSE IF d.tag = "Diff16" THEN [chunk |-> "Diff16", cost |-> 2, panicked |-> FALSE]
    ELSE IF d.tag = "Diff24" THEN [chunk |-> "Diff24", cost |-> 3, panicked |-> FALSE]
    ELSE LET n == count_ones(d.mask)
         IN  [chunk |-> CASE n = 1 -> "Color1"
                          [] n = 2 -> "Color2"
                          [] n = 3 -> "Color3"
                          [] n = 4 -> "Color4"
                          [] OTHER -> "unreachable",
              cost |-> n + 1,
              panicked |-> n \notin 1 .. 4]

\* Mutation: the chunk of the pixel that ends a run is pushed before the
\* run is flushed.
update_late_flush(self, px) ==
    IF px = self.px_prev
    THEN LET s1 == [self EXCEPT !.run = (@ + 1) % U16]
         IN  IF s1.run = RUN_MAX THEN flush_run(s1) ELSE s1
    ELSE LET hash == PixelDict_hash(px)
         IN  IF px = dict_index(self.dict, hash)
             THEN flush_run([self EXCEPT !.filesize = @ + 1,
                                         !.chunks = Append(@, "Index"),
                                         !.px_prev = px])
             ELSE LET c == chunk_of(sub(px, self.px_prev))
                  IN  flush_run([self EXCEPT !.filesize = @ + c.cost,
                                             !.chunks = Append(@, c.chunk),
                                             !.dict = dict_store(@, hash, px),
                                             !.px_prev = px])

\* What update does from line 99 on, once the run path was not taken (or
\* was left without returning).
update_rest(self, px) ==
    LET s1 == flush_run(self)
        hash == PixelDict_hash(px)
    IN  IF s1.panicked THEN s1
        ELSE IF px = dict_index(s1.dict, hash)
        THEN [s1 EXCEPT !.filesize = @ + 1,
                        !.chunks = Append(@, "Index"),
                        !.px_prev = px]
        ELSE LET d == sub(px, s1.px_prev)
                 c == chunk_of(d)
                 s2 == [s1 EXCEPT !.sub_call = [self |-> px, rhs |-> s1.px_prev,
                                                out |-> d]]
             IN  IF c.panicked
                 THEN [s2 EXCEPT !.filesize = @ + c.cost, !.panicked = TRUE]
                 ELSE [s2 EXCEPT !.filesize = @ + c.cost,
                                 !.chunks = Append(@, c.chunk),
                                 !.dict = dict_store(@, hash, px),
                                 !.px_prev = px]

\* Mutation: the run path stores the pixel in the cache.
update_run_store(self, px) ==
    IF px = self.px_prev
    THEN LET s1 == [self EXCEPT !.run = (@ + 1) % U16,
                                !.dict = dict_store(@, PixelDict_hash(px), px)]
         IN  IF s1.run = RUN_MAX THEN flush_run(s1) ELSE s1
    ELSE update_rest(self, px)

\* Mutation: the run path does not return.
update_fallthrough(self, px) ==
    IF px = self.px_prev
    THEN LET s1 == [self EXCEPT !.run = (@ + 1) % U16]
         IN  update_rest(IF s1.run = RUN_MAX THEN flush_run(s1) ELSE s1, px)
    ELSE update_rest(self, px)

update(self, px) ==
    IF px = self.px_prev
    THEN LET s1 == [self EXCEPT !.run = (@ + 1) % U16]
         IN  IF s1.run = RUN_MAX THEN flush_run(s1) ELSE s1
    ELSE update_rest(self, px)

finalize(self) == flush_run(self)

tally(cs) == [k \in QoiChunk |-> Cardinality({i \in DOMAIN cs : cs[i] = k})]

(***************************************************************************)
(* VisConfig of src/vis.rs: one visibility flag per chunk kind.            *)
(***************************************************************************)
VisConfig_new == [k \in QoiChunk |-> TRUE]

is_visible(c, chunk) == c[chunk]

toggle_visibility(c, chunk) == [c EXCEPT ![chunk] = ~@]

make_all_visible(c) == [k \in DOMAIN c |-> TRUE]

make_all_invisible(c) == [k \in DOMAIN c |-> FALSE]

(***************************************************************************)
(* The Seed application of src/web.rs.  A message is [msg, arg]; arg is    *)
(* the image of UpdateImage, the chunk of ToggleChunkVisibility, the file  *)
(* of a load, and "" otherwise.  An image is known by the name of its file.*)
(***************************************************************************)
Message(m, x) == [msg |-> m, arg |-> x]

MsgVisualize == Message("Visualize", "")

NothingDrawn == [img |-> "", config |-> << >>]

NoToggle == [chunk |-> "", config |-> << >>]

after_next_render(q, m) == Append(q, m)

\* orders.perform_cmd: the future that loads `file` is started.
perform_cmd(l, file) == Append(l, file)

\* draw_vis: the canvas shows visualize(img, config), kept here as the pair
\* it was computed from.
draw_vis(model) == [img |-> model.img, config |-> model.config]

\* Mutation: UpdateImage replaces the image without scheduling a redraw.
web_update_no_redraw(m, model, files) ==
    CASE m.msg = "InputFileChanged" ->
             IF files = << >> THEN model
             ELSE [model EXCEPT !.loads = perform_cmd(@, files[1])]
      [] m.msg = "UpdateImage" ->
             [model EXCEPT !.img = m.arg]
      [] m.msg = "ToggleChunkVisibility" ->
             [model EXCEPT !.config = toggle_visibility(@, m.arg),
                           !.mailbox = after_next_render(@, MsgVisualize)]
      [] m.msg = "MakeAllChunksVisible" ->
             [model EXCEPT !.config = make_all_visible(@),
                           !.mailbox = after_next_render(@, MsgVisualize)]
      [] m.msg = "MakeAllChunksInvisible" ->
             [model EXCEPT !.config = make_all_invisible(@),
                           !.mailbox = after_next_render(@, MsgVisualize)]
      [] m.msg = "Visualize" ->
             [model EXCEPT !.drawn = draw_vis(model)]

\* fn update.  `files` is what input_file.files() returns when the handler
\* reads it; the model is the record of Model's fields, of the orders not
\* yet carried out, and of the canvas.
web_update(m, model, files) ==
    CASE m.msg = "InputFileChanged" ->
             IF files = << >> THEN model
             ELSE [model EXCEPT !.loads = perform_cmd(@, files[1])]
      [] m.msg = "UpdateImage" ->
             [model EXCEPT !.img = m.arg,
                           !.mailbox = after_next_render(@, MsgVisualize)]
      [] m.msg = "ToggleChunkVisibility" ->
             [model EXCEPT !.config = toggle_visibility(@, m.arg),
                           !.mailbox = after_next_render(@, MsgVisualize)]
      [] m.msg = "MakeAllChunksVisible" ->
             [model EXCEPT !.config = make_all_visible(@),
                           !.mailbox = after_next_render(@, MsgVisualize)]
      [] m.msg = "MakeAllChunksInvisible" ->
             [model EXCEPT !.config = make_all_invisible(@),
                           !.mailbox = after_next_render(@, MsgVisualize)]
      [] m.msg = "Visualize" ->
             [model EXCEPT !.drawn = draw_vis(model)]

\* fn init: the model and the orders it leaves behind.
web_init ==
    [img |-> "default.png",
     config |-> VisConfig_new,
     mailbox |-> after_next_render(<< >>, MsgVisualize),
     loads |-> << >>,
     drawn |-> NothingDrawn]

WebInit ==
    /\ img = web_init.img
    /\ config = web_init.config
    /\ mailbox = web_init.mailbox
    /\ loads = web_init.loads
    /\ drawn = web_init.drawn
    /\ handled = Message("init", "")
    /\ toggled = NoToggle

\* The pixel packing harness at rest.
PixIdle ==
    /\ pix_in = << >>
    /\ pix_out = << >>

(***************************************************************************)
(* The state machine of qoi_analyze.                                       *)
(***************************************************************************)
Self ==
    [filesize |-> filesize, chunks |-> chunks, px_prev |-> px_prev,
     dict |-> dict, run |-> run, panicked |-> FALSE,
     sub_call |-> [self |-> sub_self, rhs |-> sub_rhs, out |-> sub_out]]

\* Histories are kept packed: equal consecutive values share one entry
\* [v, n]; At gives the i-th value of the plain sequence back.
Push(h, x) ==
    IF h # << >> /\ h[Len(h)].v = x
    THEN [h EXCEPT ![Len(h)].n = @ + 1]
    ELSE Append(h, [v |-> x, n |-> 1])

RECURSIVE At(_, _)
At(h, i) == IF i <= h[1].n THEN h[1].v ELSE At(Tail(h), i - h[1].n)

RECURSIVE Count(_)
Count(h) == IF h = << >> THEN 0 ELSE Count(SubSeq(h, 1, Len(h) - 1)) + h[Len(h)].n

NumFed == Count(fed)        \* how many pixels were fed so far
pixels(i) == At(fed, i)     \* the i-th pixel fed
chosen(i) == At(decided, i) \* what update did with the i-th pixel

Init ==
    /\ filesize = Analyzer_new.filesize
    /\ chunks = Analyzer_new.chunks
    /\ px_prev = Analyzer_new.px_prev
    /\ dict = Analyzer_new.dict
    /\ run = Analyzer_new.run
    /\ histogram = [k \in QoiChunk |-> 0]
    /\ pc = "feeding"
    /\ fed = << >>
    /\ decided = << >>
    /\ streak = 0
    /\ mark = [filesize |-> Analyzer_new.filesize, len |-> 0]
    /\ sub_self = Analyzer_new.sub_call.self
    /\ sub_rhs = Analyzer_new.sub_call.rhs
    /\ sub_out = Analyzer_new.sub_call.out
    /\ PixIdle
    /\ WebInit

\* enc.update(px) for the next pixel of the image.  decided records what
\* the call did with px: the run path, or the chunk it pushed for px.
Update(px) ==
    /\ pc = "feeding"
    /\ LET s == update(Self, px)
       IN  /\ filesize' = s.filesize
           /\ chunks' = s.chunks
           /\ px_prev' = s.px_prev
           /\ dict' = s.dict
           /\ run' = s.run
           /\ pc' = IF s.panicked THEN "panicked" ELSE "feeding"
           /\ decided' = Push(decided,
                               IF px = px_prev THEN "Run"
                               ELSE IF s.panicked THEN "unreachable"
                               ELSE s.chunks[Len(s.chunks)])
           /\ mark' = IF px = px_prev THEN mark
                      ELSE [filesize |-> s.filesize, len |-> Len(s.chunks)]
           /\ sub_self' = s.sub_call.self
           /\ sub_rhs' = s.sub_call.rhs
           /\ sub_out' = s.sub_call.out
    /\ UNCHANGED <<pixvars, webvars>>
    /\ fed' = Push(fed, px)
    /\ streak' = IF px = px_prev THEN streak + 1 ELSE 0
    /\ UNCHANGED histogram

\* enc.finalize() and the histogram loop that ends qoi_analyze.
Finalize ==
    /\ pc = "feeding"
    /\ LET s == finalize(Self)
       IN  /\ filesize' = s.filesize
           /\ chunks' = s.chunks
           /\ run' = s.run
           /\ pc' = IF s.panicked THEN "panicked" ELSE "done"
           /\ histogram' = IF s.panicked THEN histogram ELSE tally(s.chunks)
    /\ UNCHANGED <<px_prev, dict, fed, decided, streak, mark,
                   sub_self, sub_rhs, sub_out, pixvars, webvars>>

(***************************************************************************)
(* Spec: every image of at most MaxLen pixels over Palette.                *)
(***************************************************************************)
Palette ==
    { QoiPixel_new(0, 0, 0, 0),        \* the value of a fresh cache slot
      QoiPixel_new(0, 0, 0, 255),      \* the initial px_prev
      QoiPixel_new(1, 0, 0, 255),      \* hash 62
      QoiPixel_new(0, 1, 0, 255),      \* hash 62 as well
      QoiPixel_new(1, 1, 0, 0),        \* hash 0, like the zero pixel
      QoiPixel_new(0, 9, 0, 255),
      QoiPixel_new(10, 0, 0, 255),
      QoiPixel_new(100, 100, 0, 255),
      QoiPixel_new(241, 16, 9, 247) }

Feed == \E px \in Palette : NumFed < MaxLen /\ Update(px)

Next == Feed \/ Finalize

Spec == Init /\ [][Next]_vars

(***************************************************************************)
(* SpecRun: the images of Spec, and images made of at most one leading     *)
(* pixel, a streak of up to MaxRun repetitions, and a short tail.  The     *)
(* long streak may be ended (by a different pixel or by the end of the     *)
(* image) when it is at most NearRun long, or near RUN_MAX or beyond.      *)
(***************************************************************************)
RunPalette ==
    { QoiPixel_new(0, 0, 0, 255),
      QoiPixel_new(1, 0, 0, 255),
      QoiPixel_new(100, 100, 0, 255) }

InHead == NumFed - streak <= 1

RunMayEnd == ~InHead \/ streak <= NearRun \/ streak >= RUN_MAX - 2

FeedRun ==
    \E px \in RunPalette :
        /\ IF px = px_prev
           THEN IF InHead THEN streak < MaxRun ELSE streak < TailLen
           ELSE InHead /\ RunMayEnd
        /\ Update(px)

FinalizeRun == RunMayEnd /\ Finalize

NextRun == Feed \/ FeedRun \/ FinalizeRun

SpecRun == Init /\ [][NextRun]_vars

(***************************************************************************)
(* SpecSub: the pixel algebra alone, on pairs rhs, self = rhs + delta.     *)
(***************************************************************************)
SubBases ==
    { QoiPixel_new(0, 0, 0, 255),
      QoiPixel_new(16, 8, 249, 255),
      QoiPixel_new(241, 16, 9, 247) }

SubDeltas ==
    {-128, -17, -16, -15, -9, -8, -7, -3, -2, -1, 0, 1, 2, 7, 8, 9, 15, 16, 127}

Shifted(p, dr, dg, db, da) ==
    QoiPixel_new((Px_r(p) + dr) % 256, (Px_g(p) + dg) % 256,
                 (Px_b(p) + db) % 256, (Px_a(p) + da) % 256)

InitSub ==
    /\ filesize = Analyzer_new.filesize
    /\ chunks = Analyzer_new.chunks
    /\ px_prev = Analyzer_new.px_prev
    /\ dict = Analyzer_new.dict
    /\ run = Analyzer_new.run
    /\ histogram = [k \in QoiChunk |-> 0]
    /\ pc = "feeding"
    /\ fed = << >>
    /\ decided = << >>
    /\ streak = 0
    /\ mark = [filesize |-> Analyzer_new.filesize, len |-> 0]
    /\ sub_rhs \in SubBases
    /\ \E dr \in SubDeltas, dg \in SubDeltas, db \in SubDeltas, da \in SubDeltas :
           sub_self = Shifted(sub_rhs, dr, dg, db, da)
    /\ sub_out = [tag |-> "none"]
    /\ PixIdle
    /\ WebInit

ApplySub ==
    /\ sub_out.tag = "none"
    /\ sub_out' = sub(sub_self, sub_rhs)
    /\ UNCHANGED <<filesize, chunks, px_prev, dict, run, histogram, pc,
                   fed, decided, streak, mark, sub_self, sub_rhs,
                   pixvars, webvars>>

NextSub == ApplySub

SpecSub == InitSub /\ [][NextSub]_vars

\* The analyzer and the sub harness at rest, for the specifications below.
AnalyzerIdle ==
    /\ filesize = Analyzer_new.filesize
    /\ chunks = Analyzer_new.chunks
    /\ px_prev = Analyzer_new.px_prev
    /\ dict = Analyzer_new.dict
    /\ run = Analyzer_new.run
    /\ histogram = [k \in QoiChunk |-> 0]
    /\ pc = "feeding"
    /\ fed = << >>
    /\ decided = << >>
    /\ streak = 0
    /\ mark = [filesize |-> Analyzer_new.filesize, len |-> 0]
    /\ sub_self = Analyzer_new.sub_call.self
    /\ sub_rhs = Analyzer_new.sub_call.rhs
    /\ sub_out = Analyzer_new.sub_call.out

analyzervars ==
    <<filesize, chunks, px_prev, dict, run, histogram, pc,
      fed, decided, streak, mark, sub_self, sub_rhs, sub_out>>

(***************************************************************************)
(* SpecPix: QoiPixel::new, From<[u8; 4]> and the four accessors on pairs   *)
(* of channel arrays over Channels.                                        *)
(***************************************************************************)
Channels == {0, 1, 128, 255}

Rgba == {<<r, g, b, a>> : r \in Channels, g \in Channels, b \in Channels, a \in Channels}

InitPix ==
    /\ AnalyzerIdle
    /\ WebInit
    /\ pix_in \in Rgba \X Rgba
    /\ pix_out = << >>

\* What test_pixel does, for both arrays: build the pixel both ways and
\* read its channels back.
ApplyPix ==
    /\ pix_out = << >>
    /\ pix_out' = [i \in 1 .. 2 |->
                      LET c == pix_in[i]
                          px == QoiPixel_new(c[1], c[2], c[3], c[4])
                      IN  [new |-> px,
                           from |-> QoiPixel_from(c),
                           r |-> Px_r(px), g |-> Px_g(px),
                           b |-> Px_b(px), a |-> Px_a(px)]]
    /\ UNCHANGED <<analyzervars, pix_in, webvars>>

NextPix == ApplyPix

SpecPix == InitPix /\ [][NextPix]_vars

(***************************************************************************)
(* SpecWeb: the Seed application.  The user picks files and clicks the     *)
(* visibility controls at any time; scheduled messages are delivered and   *)
(* file loads complete in any order.                                       *)
(***************************************************************************)
Files == {"a.png", "b.png"}

FileLists == {<< >>} \cup {<<f>> : f \in Files}

ToggleKinds == {"Index", "Color4"}

WebModel ==
    [img |-> img, config |-> config, mailbox |-> mailbox, loads |-> loads,
     drawn |-> drawn]

Without(q, i) == SubSeq(q, 1, i - 1) \o SubSeq(q, i + 1, Len(q))

\* update(m, ...) on the model `from`, which is the current model less the
\* message being delivered.
Handle(m, from, files) ==
    /\ LET model == web_update(m, from, files)
       IN  /\ img' = model.img
           /\ config' = model.config
           /\ mailbox' = model.mailbox
           /\ loads' = model.loads
           /\ drawn' = model.drawn
    /\ handled' = m
    /\ toggled' = CASE m.msg = "ToggleChunkVisibility" ->
                           [chunk |-> m.arg, config |-> config]
                     [] m.msg \in {"MakeAllChunksVisible", "MakeAllChunksInvisible"} ->
                           NoToggle
                     [] OTHER -> toggled
    /\ UNCHANGED <<analyzervars, pixvars>>

\* ev(Ev::Change) of the file input.
InputFileChanged ==
    \E files \in FileLists :
        /\ files # << >> => Len(loads) < MaxLoads
        /\ Handle(Message("InputFileChanged", IF files = << >> THEN "" ELSE files[1]),
                  WebModel, files)

\* The future of perform_cmd completes: StaticImage::from_blob gave Ok and
\* the message UpdateImage is sent, or gave Err and nothing is sent.
LoadImage ==
    \E i \in DOMAIN loads, ok \in BOOLEAN :
        /\ ok => Len(mailbox) < MaxMailbox
        /\ loads' = Without(loads, i)
        /\ mailbox' = IF ok THEN Append(mailbox, Message("UpdateImage", loads[i]))
                      ELSE mailbox
        /\ handled' = Message(IF ok THEN "LoadOk" ELSE "LoadFailed", loads[i])
        /\ UNCHANGED <<img, config, drawn, toggled, analyzervars, pixvars>>

UpdateImage ==
    \E i \in DOMAIN mailbox :
        /\ mailbox[i].msg = "UpdateImage"
        /\ Handle(mailbox[i], [WebModel EXCEPT !.mailbox = Without(@, i)], << >>)

ToggleChunkVisibility ==
    \E chunk \in ToggleKinds :
        /\ Len(mailbox) < MaxMailbox
        /\ Handle(Message("ToggleChunkVisibility", chunk), WebModel, << >>)

MakeAllChunksVisible ==
    /\ Len(mailbox) < MaxMailbox
    /\ Handle(Message("MakeAllChunksVisible", ""), WebModel, << >>)

MakeAllChunksInvisible ==
    /\ Len(mailbox) < MaxMailbox
    /\ Handle(Message("MakeAllChunksInvisible", ""), WebModel, << >>)

Visualize ==
    \E i \in DOMAIN mailbox :
        /\ mailbox[i].msg = "Visualize"
        /\ Handle(mailbox[i], [WebModel EXCEPT !.mailbox = Without(@, i)], << >>)

InitWeb ==
    /\ AnalyzerIdle
    /\ PixIdle
    /\ WebInit

NextWeb ==
    \/ InputFileChanged
    \/ LoadImage
    \/ UpdateImage
    \/ ToggleChunkVisibility
    \/ MakeAllChunksVisible
    \/ MakeAllChunksInvisible
    \/ Visualize

SpecWeb == InitWeb /\ [][NextWeb]_vars

(***************************************************************************)
(* Vocabulary of the properties.                                           *)
(***************************************************************************)
RunKinds == {"Run8", "Run16"}

\* The pixel just before pixel i of the input; the initial reference
\* (0,0,0,255) before the first one.
PredPixel(i) == IF i = 1 THEN QoiPixel_new(0, 0, 0, 255) ELSE pixels(i - 1)

ZeroPixel == QoiPixel_new(0, 0, 0, 0)

HistogramSum ==
    histogram["Index"] + histogram["Run8"] + histogram["Run16"]
    + histogram["Diff8"] + histogram["Diff16"] + histogram["Diff24"]
    + histogram["Color1"] + histogram["Color2"] + histogram["Color3"]
    + histogram["Color4"]

(***************************************************************************)
(* C1.  While pixels are being fed, the number of chunk entries already    *)
(* appended plus the run counter equals the number of pixels fed so far;   *)
(* after finalize the chunk sequence has exactly one entry per pixel fed   *)
(* and the histogram counts sum to that number.                            *)
(***************************************************************************)
C1_OneEntryPerPixel ==
    /\ pc = "feeding" => Len(chunks) + run = NumFed
    /\ pc = "done" => /\ Len(chunks) = NumFed
                      /\ HistogramSum = NumFed

C1_Witness ==
    /\ pc = "done"
    /\ NumFed >= 3
    /\ \E i \in DOMAIN chunks : chunks[i] \in RunKinds
    /\ \E i \in DOMAIN chunks : chunks[i] \notin RunKinds

(***************************************************************************)
(* The byte cost implied by a chunk sequence.                              *)
(***************************************************************************)
EntryCost(k) ==
    CASE k = "Index" -> 1
      [] k = "Diff8" -> 1
      [] k = "Diff16" -> 2
      [] k = "Diff24" -> 3
      [] k = "Color1" -> 2
      [] k = "Color2" -> 3
      [] k = "Color3" -> 4
      [] k = "Color4" -> 5
      [] OTHER -> 0

CountOf(cs, k) == Cardinality({i \in DOMAIN cs : cs[i] = k})

\* First and last positions of the maximal blocks of kind k in cs.
BlockStarts(cs, k) ==
    {i \in DOMAIN cs : cs[i] = k /\ (i = 1 \/ cs[i - 1] # k)}

BlockEnds(cs, k) ==
    {i \in DOMAIN cs : cs[i] = k /\ (i = Len(cs) \/ cs[i + 1] # k)}

BlockLen(cs, k, i) ==
    (CHOOSE e \in BlockEnds(cs, k) :
        e >= i /\ \A f \in BlockEnds(cs, k) : f >= i => e <= f) - i + 1

CeilDiv(x, y) == (x + y - 1) \div y

RECURSIVE SumOver(_, _, _)
SumOver(cs, k, starts) ==
    IF starts = {} THEN 0
    ELSE LET i == CHOOSE j \in starts : TRUE
         IN  CeilDiv(BlockLen(cs, k, i), 8224) + SumOver(cs, k, starts \ {i})

CostOfChunks(cs) ==
    CountOf(cs, "Index") * EntryCost("Index")
    + CountOf(cs, "Diff8") * EntryCost("Diff8")
    + CountOf(cs, "Diff16") * EntryCost("Diff16")
    + CountOf(cs, "Diff24") * EntryCost("Diff24")
    + CountOf(cs, "Color1") * EntryCost("Color1")
    + CountOf(cs, "Color2") * EntryCost("Color2")
    + CountOf(cs, "Color3") * EntryCost("Color3")
    + CountOf(cs, "Color4") * EntryCost("Color4")
    + 1 * Cardinality(BlockStarts(cs, "Run8"))
    + 2 * SumOver(cs, "Run16", BlockStarts(cs, "Run16"))

(***************************************************************************)
(* C2.  The total returned by finalize is 18 plus the cost recomputed from *)
(* the returned chunk sequence alone: 1 per Index and per Diff8 entry, 2   *)
(* per Diff16, 3 per Diff24, k+1 per Color-k, 1 per maximal block of Run8  *)
(* entries, and 2 per group of a maximal block of Run16 entries, a block   *)
(* of L entries counting as ceil(L / 8224) groups.                         *)
(***************************************************************************)
C2_TotalFromChunks ==
    pc = "done" => filesize = 18 + CostOfChunks(chunks)

\* An image whose streak was flushed twice into one block of Run16 entries,
\* followed by a chunk of another kind.
C2_Witness ==
    /\ pc = "done"
    /\ Len(chunks) > 8224 + 33
    /\ chunks[8224 + 33] = "Run16"
    /\ chunks[Len(chunks)] \notin RunKinds

C2_WitnessEmpty == pc = "done" /\ fed = << >> /\ filesize = 18

(***************************************************************************)
(* C3.  The chunk sequence is in input order: entry i is Run8 or Run16     *)
(* exactly when pixel i equals the pixel before it (the initial reference  *)
(* (0,0,0,255) before the first pixel), and otherwise entry i is the       *)
(* non-run chunk that update pushed when it handled pixel i; so the        *)
(* entries of a run never land after the chunk of the pixel that ended it. *)
(***************************************************************************)
C3_InputOrder ==
    \A i \in DOMAIN chunks :
        /\ chunks[i] \in RunKinds <=> pixels(i) = PredPixel(i)
        /\ pixels(i) # PredPixel(i) =>
               /\ chunks[i] = chosen(i)
               /\ chunks[i] \in QoiChunk \ RunKinds

\* A run in the middle of the image: its entries sit between the chunks of
\* the pixels around it.
C3_Witness ==
    /\ Len(chunks) >= 3
    /\ \E i \in 2 .. Len(chunks) - 1 :
           /\ chunks[i] \in RunKinds
           /\ chunks[i - 1] \notin RunKinds
           /\ chunks[i + 1] \notin RunKinds

(***************************************************************************)
(* The cache properties speak of the hash (R xor G xor B xor A) & 0x3F of  *)
(* the pixels of the input.                                                *)
(***************************************************************************)
HashOf(p) == BitXor(BitXor(Px_r(p), Px_g(p), 8), BitXor(Px_b(p), Px_a(p), 8), 8) % 64

\* No pixel strictly between positions i and j has the hash of pixel j and
\* another value.
SlotKept(i, j) ==
    \A k \in i + 1 .. j - 1 :
        HashOf(pixels(k)) = HashOf(pixels(j)) => pixels(k) = pixels(j)

(***************************************************************************)
(* C4 as stated.  If p occurred earlier and no other pixel value with the  *)
(* same hash came since, a later occurrence of p that differs from the     *)
(* pixel just before it is an Index entry.                                 *)
(***************************************************************************)
C4_RehitAnyOccurrence ==
    \A j \in DOMAIN chunks : \A i \in 1 .. j - 1 :
        (/\ pixels(i) = pixels(j)
         /\ pixels(j) # PredPixel(j)
         /\ SlotKept(i, j))
        => chunks[j] = "Index"

(***************************************************************************)
(* C4 amended.  If p occurred earlier at a position where it differed from *)
(* the pixel just before it (the initial reference (0,0,0,255) before the  *)
(* first pixel), and no other pixel value with the same hash came since,   *)
(* a later occurrence of p that differs from the pixel just before it is   *)
(* an Index entry.                                                         *)
(***************************************************************************)
C4_RehitStoredOccurrence ==
    \A j \in DOMAIN chunks : \A i \in 1 .. j - 1 :
        (/\ pixels(i) = pixels(j)
         /\ pixels(i) # PredPixel(i)
         /\ pixels(j) # PredPixel(j)
         /\ SlotKept(i, j))
        => chunks[j] = "Index"

\* A pixel that missed the cache comes back after a pixel of another hash.
C4_Witness ==
    \E j \in DOMAIN chunks : \E i \in 1 .. j - 2 :
        /\ pixels(i) = pixels(j)
        /\ pixels(i) # PredPixel(i)
        /\ pixels(j) # PredPixel(j)
        /\ SlotKept(i, j)
        /\ chunks[i] # "Index"
        /\ chunks[j] = "Index"

\* Position i is the last one among the positions in S with its hash.
LatestOfHash(S, i) ==
    i \in S /\ \A k \in S : k > i => HashOf(pixels(k)) # HashOf(pixels(i))

(***************************************************************************)
(* C5 as stated.  Slot h of the cache holds the most recently fed pixel    *)
(* whose hash is h, or the zero pixel if no fed pixel has hash h.          *)
(***************************************************************************)
C5_SlotHoldsLatestFed ==
    LET S == 1 .. NumFed
    IN  /\ \A i \in S : LatestOfHash(S, i) => dict[HashOf(pixels(i))] = pixels(i)
        /\ \A h \in 0 .. 63 :
               dict[h] = ZeroPixel \/ \E i \in S : HashOf(pixels(i)) = h

(***************************************************************************)
(* C5 amended.  Slot h of the cache holds the most recently fed pixel      *)
(* whose hash is h among the pixels that differ from the pixel fed just    *)
(* before them (the initial reference (0,0,0,255) before the first pixel), *)
(* or the zero pixel if there is none.                                     *)
(***************************************************************************)
C5_SlotHoldsLatestNonRun ==
    LET S == {i \in 1 .. NumFed : pixels(i) # PredPixel(i)}
    IN  /\ \A i \in S : LatestOfHash(S, i) => dict[HashOf(pixels(i))] = pixels(i)
        /\ \A h \in 0 .. 63 :
               dict[h] = ZeroPixel \/ \E i \in S : HashOf(pixels(i)) = h

\* A slot was written, overwritten by a pixel of the same hash, and another
\* slot still holds the zero pixel.
C5_Witness ==
    /\ \E i \in 1 .. NumFed : \E j \in i + 1 .. NumFed :
           /\ HashOf(pixels(i)) = HashOf(pixels(j))
           /\ pixels(i) # pixels(j)
           /\ pixels(i) # ZeroPixel
           /\ dict[HashOf(pixels(j))] = pixels(j)
    /\ \E i \in 1 .. NumFed : pixels(i) = PredPixel(i)

(***************************************************************************)
(* C6 as stated.  The first occurrence of a pixel value other than         *)
(* (0,0,0,0) is never an Index entry; the first occurrence of (0,0,0,0)    *)
(* that does not continue a run is an Index entry.                         *)
(***************************************************************************)
FirstOccurrence(j) == \A i \in 1 .. j - 1 : pixels(i) # pixels(j)

C6_FirstOccurrence ==
    \A j \in DOMAIN chunks :
        FirstOccurrence(j) =>
            /\ pixels(j) # ZeroPixel => chunks[j] # "Index"
            /\ (pixels(j) = ZeroPixel /\ pixels(j) # PredPixel(j))
                   => chunks[j] = "Index"

(***************************************************************************)
(* C6 amended.  The first occurrence of a pixel value other than (0,0,0,0) *)
(* is never an Index entry; the first occurrence of (0,0,0,0) is an Index  *)
(* entry provided no pixel fed before it has hash 0.                       *)
(***************************************************************************)
C6_FirstOccurrenceFreshSlot ==
    \A j \in DOMAIN chunks :
        FirstOccurrence(j) =>
            /\ pixels(j) # ZeroPixel => chunks[j] # "Index"
            /\ (/\ pixels(j) = ZeroPixel
                /\ pixels(j) # PredPixel(j)
                /\ \A i \in 1 .. j - 1 : HashOf(pixels(i)) # 0)
                   => chunks[j] = "Index"

\* The zero pixel comes first after other pixels and hits; a pixel of hash
\* 0 that came first did not.
C6_Witness ==
    /\ \E j \in 2 .. Len(chunks) :
           /\ FirstOccurrence(j)
           /\ pixels(j) = ZeroPixel
           /\ chunks[j] = "Index"
    /\ \E j \in DOMAIN chunks :
           /\ FirstOccurrence(j)
           /\ pixels(j) # ZeroPixel
           /\ HashOf(pixels(j)) = 0
           /\ chunks[j] # "Index"

(***************************************************************************)
(* C7.  A run of n pixels equal to the pixel before them, ended by a       *)
(* different pixel or by finalize, leaves exactly n Run8 entries and 1     *)
(* byte when 1 <= n <= 32, and exactly n Run16 entries and 2 bytes when    *)
(* 33 <= n <= 8224, after what the image had produced before the run; the  *)
(* pixel that ends the run adds its own chunk and cost after them.         *)
(***************************************************************************)
C7_RunFlush ==
    [][ (/\ pc = "feeding"
         /\ 1 <= streak /\ streak <= 8224
         /\ \/ pc' = "done"
            \/ pc' = "feeding" /\ streak' = 0)
        => LET kind == IF streak <= 32 THEN "Run8" ELSE "Run16"
               bytes == IF streak <= 32 THEN 1 ELSE 2
               ender == IF pc' = "done" THEN 0 ELSE 1
               last == Len(chunks')
           IN  /\ last = mark.len + streak + ender
               /\ \A i \in 1 .. mark.len : chunks'[i] = chunks[i]
               /\ \A i \in mark.len + 1 .. mark.len + streak : chunks'[i] = kind
               /\ ender = 1 => chunks'[last] \notin RunKinds
               /\ filesize' = mark.filesize + bytes
                              + (IF ender = 1 THEN EntryCost(chunks'[last]) ELSE 0)
      ]_vars

\* An image that ends with a run of 33 after another pixel.
C7_Witness ==
    /\ pc = "done"
    /\ streak = 33
    /\ mark.len = 1
    /\ Len(chunks) = 34
    /\ chunks[2] = "Run16" /\ chunks[34] = "Run16"
    /\ filesize = mark.filesize + 2

(***************************************************************************)
(* C8.  The 8224th consecutive pixel equal to the pixel before it flushes  *)
(* at once: 8224 Run16 entries and 2 bytes are added, the counter is 0     *)
(* again and the previous pixel is kept.  An image ending with 8225 such   *)
(* pixels gets 8224 Run16 entries, then 1 Run8 entry, and 3 bytes for them.*)
(***************************************************************************)
C8_ForcedFlush ==
    [][ /\ (pc = "feeding" /\ pc' = "feeding" /\ streak' = 8224)
           => /\ chunks' = chunks \o [i \in 1 .. 8224 |-> "Run16"]
              /\ filesize' = filesize + 2
              /\ run' = 0
              /\ px_prev' = px_prev
        /\ (pc = "feeding" /\ pc' = "done" /\ streak = 8225)
           => /\ Len(chunks') = mark.len + 8225
              /\ \A i \in mark.len + 1 .. mark.len + 8224 : chunks'[i] = "Run16"
              /\ chunks'[mark.len + 8225] = "Run8"
              /\ filesize' = mark.filesize + 3
      ]_vars

C8_Witness ==
    /\ pc = "done"
    /\ streak = 8225
    /\ Len(chunks) = mark.len + 8225
    /\ chunks[Len(chunks)] = "Run8"
    /\ chunks[Len(chunks) - 1] = "Run16"

(***************************************************************************)
(* C9 as stated.  For previous = (0,0,0,255) and current = (16,8,249,255), *)
(* current.sub(previous) is Diff16.                                        *)
(***************************************************************************)
C9_Diff16Example ==
    (/\ sub_rhs = QoiPixel_new(0, 0, 0, 255)
     /\ sub_self = QoiPixel_new(16, 8, 249, 255)
     /\ sub_out.tag # "none")
    => sub_out.tag = "Diff16"

(***************************************************************************)
(* C9 amended.  For previous = (16,8,249,255) and current = (0,0,0,255),   *)
(* current.sub(previous) is Diff16.                                        *)
(***************************************************************************)
C9_Diff16ExampleSwapped ==
    (/\ sub_rhs = QoiPixel_new(16, 8, 249, 255)
     /\ sub_self = QoiPixel_new(0, 0, 0, 255)
     /\ sub_out.tag # "none")
    => sub_out.tag = "Diff16"

\* Deltas (-16,-8,7) biased to the fields 0, 0, 15.
C9_Witness ==
    /\ sub_rhs = QoiPixel_new(16, 8, 249, 255)
    /\ sub_self = QoiPixel_new(0, 0, 0, 255)
    /\ sub_out = [tag |-> "Diff16", bits |-> 15]

(***************************************************************************)
(* C10 as stated.  For previous = (0,0,0,255) and current =                *)
(* (241,16,9,247), current.sub(previous) is Diff24.                        *)
(***************************************************************************)
C10_Diff24Example ==
    (/\ sub_rhs = QoiPixel_new(0, 0, 0, 255)
     /\ sub_self = QoiPixel_new(241, 16, 9, 247)
     /\ sub_out.tag # "none")
    => sub_out.tag = "Diff24"

(***************************************************************************)
(* C10 amended.  For previous = (241,16,9,247) and current = (0,0,0,255),  *)
(* current.sub(previous) is Diff24.                                        *)
(***************************************************************************)
C10_Diff24ExampleSwapped ==
    (/\ sub_rhs = QoiPixel_new(241, 16, 9, 247)
     /\ sub_self = QoiPixel_new(0, 0, 0, 255)
     /\ sub_out.tag # "none")
    => sub_out.tag = "Diff24"

\* Deltas (15,-16,-9,8) biased to the fields 31 and 0, 7, 24.
C10_Witness ==
    /\ sub_rhs = QoiPixel_new(241, 16, 9, 247)
    /\ sub_self = QoiPixel_new(0, 0, 0, 255)
    /\ sub_out = [tag |-> "Diff24", diff_r |-> 31, diff_gba |-> 248]

(***************************************************************************)
(* The channel deltas of the pair handed to sub: current minus previous    *)
(* modulo 256, read as a signed 8-bit value.                               *)
(***************************************************************************)
SignedDelta(c, p) ==
    LET d == (c - p + 256) % 256 IN IF d >= 128 THEN d - 256 ELSE d

DeltaR == SignedDelta(Px_r(sub_self), Px_r(sub_rhs))
DeltaG == SignedDelta(Px_g(sub_self), Px_g(sub_rhs))
DeltaB == SignedDelta(Px_b(sub_self), Px_b(sub_rhs))
DeltaA == SignedDelta(Px_a(sub_self), Px_a(sub_rhs))

SubApplied == sub_out.tag # "none"

Diff8Eligible ==
    DeltaA = 0 /\ DeltaR \in -2 .. 1 /\ DeltaG \in -2 .. 1 /\ DeltaB \in -2 .. 1

Diff16Eligible ==
    DeltaA = 0 /\ DeltaR \in -16 .. 15 /\ DeltaG \in -8 .. 7 /\ DeltaB \in -8 .. 7

Diff24Range ==
    /\ DeltaR \in -16 .. 15 /\ DeltaG \in -16 .. 15
    /\ DeltaB \in -16 .. 15 /\ DeltaA \in -16 .. 15

\* How many of the four channels differ.
Differing ==
    (IF DeltaR # 0 THEN 1 ELSE 0) + (IF DeltaG # 0 THEN 1 ELSE 0)
    + (IF DeltaB # 0 THEN 1 ELSE 0) + (IF DeltaA # 0 THEN 1 ELSE 0)

(***************************************************************************)
(* C11.  For every pixel pair whose alpha delta is 0 and whose red, green  *)
(* and blue deltas all lie in [-2,1], sub returns Diff8.                   *)
(***************************************************************************)
C11_Diff8Range ==
    (SubApplied /\ Diff8Eligible) => sub_out.tag = "Diff8"

\* previous = (0,0,0,255), current = (254,0,1,255): deltas (-2,0,1), fields
\* 0, 2, 3.
C11_Witness ==
    /\ sub_rhs = QoiPixel_new(0, 0, 0, 255)
    /\ sub_self = QoiPixel_new(254, 0, 1, 255)
    /\ sub_out = [tag |-> "Diff8", bits |-> 11]

(***************************************************************************)
(* C12.  For every pixel pair whose alpha delta is 0, whose RGB deltas are *)
(* not all in [-2,1], and whose red delta lies in [-16,15] and green and   *)
(* blue deltas in [-8,7], sub returns Diff16, also when only one channel   *)
(* differs.                                                                *)
(***************************************************************************)
C12_Diff16Range ==
    (SubApplied /\ ~Diff8Eligible /\ Diff16Eligible) => sub_out.tag = "Diff16"

\* Only red differs, by 15: fields 31, 8, 8.
C12_Witness ==
    /\ Differing = 1
    /\ DeltaR = 15
    /\ sub_out = [tag |-> "Diff16", bits |-> 31 * 256 + 8 * 16 + 8]

(***************************************************************************)
(* C13.  When exactly one of the four channels differs, sub never returns  *)
(* Diff24; when the pair is neither Diff8- nor Diff16-eligible the result  *)
(* is the Color literal whose mask selects exactly that channel.           *)
(***************************************************************************)
C13_SingleChannel ==
    (SubApplied /\ Differing = 1) =>
        /\ sub_out.tag # "Diff24"
        /\ (~Diff8Eligible /\ ~Diff16Eligible) =>
               /\ sub_out = [tag |-> "Color",
                             mask |-> IF DeltaR # 0 THEN 8
                                      ELSE IF DeltaG # 0 THEN 4
                                      ELSE IF DeltaB # 0 THEN 2
                                      ELSE 1]
               /\ chunk_of(sub_out).cost = 2

\* previous = (0,0,0,255), current = (0,9,0,255): the green bit only.
C13_Witness ==
    /\ sub_rhs = QoiPixel_new(0, 0, 0, 255)
    /\ sub_self = QoiPixel_new(0, 9, 0, 255)
    /\ sub_out = [tag |-> "Color", mask |-> 4]

(***************************************************************************)
(* C15.  For every pair of distinct pixels the byte cost of what sub       *)
(* returns (Diff8 1, Diff16 2, Diff24 3, Color 1 + popcount(mask)) is at   *)
(* most the cost of every encoding applicable to the pair: Diff8 when      *)
(* alpha delta is 0 and RGB deltas are in [-2,1], Diff16 when alpha delta  *)
(* is 0 and the deltas are in [-16,15]/[-8,7]/[-8,7], Diff24 when all four *)
(* deltas are in [-16,15], Color always.                                   *)
(***************************************************************************)
ReturnedCost ==
    CASE sub_out.tag = "Diff8" -> 1
      [] sub_out.tag = "Diff16" -> 2
      [] sub_out.tag = "Diff24" -> 3
      [] sub_out.tag = "Color" -> 1 + count_ones(sub_out.mask)

ApplicableCosts ==
    (IF Diff8Eligible THEN {1} ELSE {})
    \cup (IF Diff16Eligible THEN {2} ELSE {})
    \cup (IF Diff24Range THEN {3} ELSE {})
    \cup {1 + Differing}

C15_GreedyIsMinimal ==
    (SubApplied /\ sub_self # sub_rhs) =>
        \A c \in ApplicableCosts : ReturnedCost <= c

\* One channel differs within the Diff24 range but outside Diff16: the
\* 2-byte Color is returned although the 3-byte Diff24 would fit.
C15_Witness ==
    /\ SubApplied
    /\ Differing = 1
    /\ Diff24Range /\ ~Diff16Eligible
    /\ ApplicableCosts = {2, 3}
    /\ ReturnedCost = 2

(***************************************************************************)
(* C16.  For every pair that is neither Diff8- nor Diff16-eligible, sub    *)
(* returns Diff24 exactly when at least two channels differ and all four   *)
(* deltas lie in [-16,15]; otherwise it returns Color(mask) with bit 3 set *)
(* iff red differs, bit 2 iff green, bit 1 iff blue, bit 0 iff alpha.      *)
(* Every pair gets one of the four results.                                *)
(***************************************************************************)
DiffersMask ==
    8 * (IF DeltaR # 0 THEN 1 ELSE 0) + 4 * (IF DeltaG # 0 THEN 1 ELSE 0)
    + 2 * (IF DeltaB # 0 THEN 1 ELSE 0) + (IF DeltaA # 0 THEN 1 ELSE 0)

C16_Diff24OrColor ==
    SubApplied =>
        /\ sub_out.tag \in {"Diff8", "Diff16", "Diff24", "Color"}
        /\ (~Diff8Eligible /\ ~Diff16Eligible) =>
               IF Differing >= 2 /\ Diff24Range
               THEN sub_out.tag = "Diff24"
               ELSE sub_out = [tag |-> "Color", mask |-> DiffersMask]

\* Green, blue and alpha differ, alpha out of the Diff24 range.
C16_Witness ==
    /\ DeltaR = 0 /\ DeltaG = -16 /\ DeltaB = 15 /\ DeltaA = 16
    /\ sub_out = [tag |-> "Color", mask |-> 7]

(***************************************************************************)
(* C20.  For every pixel p, p.sub(p) is the Diff8 encoding of the deltas   *)
(* (0,0,0), biased fields 2, 2, 2; and sub returns a Color literal with an *)
(* empty mask for no pair.                                                 *)
(***************************************************************************)
C20_SubOfEqualPixels ==
    SubApplied =>
        /\ sub_self = sub_rhs => sub_out = [tag |-> "Diff8", bits |-> 2 * 16 + 2 * 4 + 2]
        /\ sub_out.tag = "Color" => sub_out.mask # 0

C20_Witness ==
    /\ sub_self = sub_rhs
    /\ sub_self = QoiPixel_new(0, 0, 0, 255)
    /\ sub_out = [tag |-> "Diff8", bits |-> 42]

(***************************************************************************)
(* C14.  For every pixel sequence the Analyzer never calls sub on two      *)
(* equal pixels (a pixel equal to the previous one takes the run path), so *)
(* the Color arm of update sees a mask of 1 to 4 bits and neither          *)
(* unreachable!() arm is entered.                                          *)
(***************************************************************************)
C14_NeverSubOfEqual ==
    /\ pc # "panicked"
    /\ sub_out.tag # "none" =>
           /\ sub_self # sub_rhs
           /\ sub_out = sub(sub_self, sub_rhs)
           /\ sub_out.tag = "Color" => count_ones(sub_out.mask) \in 1 .. 4

\* More than RUN_MAX repetitions of the initial px_prev went down the run
\* path, then (100,100,0,255) was classified against it as a Color literal.
C14_Witness ==
    /\ pc = "done"
    /\ histogram["Run16"] > RUN_MAX
    /\ sub_rhs = QoiPixel_new(0, 0, 0, 255)
    /\ sub_self = QoiPixel_new(100, 100, 0, 255)
    /\ sub_out = [tag |-> "Color", mask |-> 12]

\* The pixel handed to the update call that a step makes.
LastFed == fed[Len(fed)].v

\* What flushing the pending run adds to the chunks and to the byte total.
PendingRun ==
    IF run = 0 THEN << >>
    ELSE [i \in 1 .. run |-> IF run <= 32 THEN "Run8" ELSE "Run16"]

PendingBytes == IF run = 0 THEN 0 ELSE IF run <= 32 THEN 1 ELSE 2

DiffKinds == {"Diff8", "Diff16", "Diff24", "Color1", "Color2", "Color3", "Color4"}

(***************************************************************************)
(* C17.  A call of update with a pixel different from the previous pixel   *)
(* first flushes the pending run.  Then, if the cache slot at hash(pixel)  *)
(* holds the pixel, one Index entry and 1 byte are added and no slot       *)
(* changes, even where Diff8 would apply; otherwise one Diff or Color      *)
(* entry is added with its cost and the slot at hash(pixel) alone is       *)
(* overwritten with the pixel.  Either way the previous pixel becomes the  *)
(* pixel.                                                                  *)
(***************************************************************************)
C17_NonRunStep ==
    [][ (pc = "feeding" /\ fed' # fed /\ LastFed' # px_prev)
        => LET px == LastFed'
               h == HashOf(px)
               k == chunks'[Len(chunks')]
           IN  /\ pc' = "feeding"
               /\ chunks' = (chunks \o PendingRun) \o <<k>>
               /\ run' = 0
               /\ px_prev' = px
               /\ IF dict[h] = px
                  THEN /\ k = "Index"
                       /\ filesize' = filesize + PendingBytes + 1
                       /\ dict' = dict
                  ELSE /\ k \in DiffKinds
                       /\ k = chunk_of(sub(px, px_prev)).chunk
                       /\ filesize' = filesize + PendingBytes + EntryCost(k)
                       /\ dict'[h] = px
                       /\ \A j \in 0 .. DictSlots - 1 : j # h => dict'[j] = dict[j]
      ]_vars

\* (1,0,0,255), (0,0,0,255), (0,0,0,255), (1,0,0,255): the last pixel ends
\* a run of one and hits its slot although it is Diff8 away from px_prev.
C17_Witness ==
    /\ chunks = <<"Diff8", "Diff8", "Run8", "Index">>
    /\ px_prev = QoiPixel_new(1, 0, 0, 255)
    /\ pixels(3) = QoiPixel_new(0, 0, 0, 255)
    /\ sub(px_prev, pixels(3)).tag = "Diff8"
    /\ filesize = QOI_HEADER_LEN + QOI_PADDING_LEN + 4
    /\ run = 0

(***************************************************************************)
(* C18.  Between update calls the run counter is in 0 .. 8223: it is 0 in  *)
(* the initial state, after every non-run update, after a forced flush and *)
(* after finalize, so the u16 counter never overflows and flush_run never  *)
(* sees a counter above 8224.                                              *)
(***************************************************************************)
C18_RunCounterBound ==
    /\ run \in 0 .. 8223
    /\ pc # "panicked"
    /\ pc = "done" => run = 0
    /\ pc = "feeding" => run = streak % 8224

\* The forced flush has just put the counter back to 0.
C18_Witness ==
    /\ pc = "feeding"
    /\ streak = 8224
    /\ run = 0
    /\ Len(chunks) >= 8224

(***************************************************************************)
(* C19.  A call of update with a pixel equal to the previous pixel leaves  *)
(* all 64 cache slots and the previous pixel unchanged, and leaves the     *)
(* byte total and the chunk sequence unchanged unless the incremented      *)
(* counter reaches 8224.                                                   *)
(***************************************************************************)
C19_RunStep ==
    [][ (pc = "feeding" /\ fed' # fed /\ LastFed' = px_prev)
        => /\ \A j \in 0 .. DictSlots - 1 : dict'[j] = dict[j]
           /\ px_prev' = px_prev
           /\ run + 1 # 8224 =>
                  /\ filesize' = filesize
                  /\ chunks' = chunks
                  /\ run' = run + 1
      ]_vars

\* Two leading pixels equal to the initial px_prev: nothing is emitted and
\* slot 63, where that pixel hashes, still holds the zero pixel.
C19_Witness ==
    /\ pc = "feeding"
    /\ NumFed = 2 /\ streak = 2 /\ run = 2
    /\ px_prev = QoiPixel_new(0, 0, 0, 255)
    /\ dict[HashOf(px_prev)] = ZeroPixel
    /\ chunks = << >>
    /\ filesize = QOI_HEADER_LEN + QOI_PADDING_LEN

(***************************************************************************)
(* C22.  For all channel values r, g, b, a, QoiPixel::new(r,g,b,a) has     *)
(* r() = r, g() = g, b() = b and a() = a and equals                        *)
(* QoiPixel::from([r,g,b,a]); two pixels are equal exactly when all four   *)
(* channels are equal.                                                     *)
(***************************************************************************)
C22_PackingRoundTrip ==
    pix_out # << >> =>
        /\ \A i \in 1 .. 2 :
               /\ <<pix_out[i].r, pix_out[i].g, pix_out[i].b, pix_out[i].a>> = pix_in[i]
               /\ pix_out[i].new = pix_out[i].from
        /\ (pix_out[1].new = pix_out[2].new) <=> (pix_in[1] = pix_in[2])

\* Two pixels that differ in the green channel only, by its top bit.
C22_Witness ==
    /\ pix_in = << <<1, 128, 255, 0>>, <<1, 0, 255, 0>> >>
    /\ pix_out # << >>
    /\ pix_out[1].new # pix_out[2].new
    /\ pix_out[1].g = 128 /\ pix_out[2].g = 0

(***************************************************************************)
(* C23.  Whenever sub returns Diff8, Diff16 or Diff24, each packed field   *)
(* is the signed delta plus its bias (2 for Diff8; 16 for red and 8 for    *)
(* green and blue in Diff16; 16 for all four in Diff24), fits its width    *)
(* (2; 5, 4, 4; 5, 5, 5, 5) without touching its neighbours, and taking    *)
(* the bias off each unpacked field and adding the result to the previous  *)
(* pixel's channels modulo 256 (alpha kept for Diff8 and Diff16) gives the *)
(* current pixel.                                                          *)
(***************************************************************************)
\* A field of a packed word: its width, its bias and the value found at
\* bit `low`.
Field(word, low, width, bias) ==
    [width |-> width, bias |-> bias, value |-> (word \div 2^low) % 2^width]

Unpacked ==
    CASE sub_out.tag = "Diff8" ->
             [r |-> Field(sub_out.bits, 4, 2, 2), g |-> Field(sub_out.bits, 2, 2, 2),
              b |-> Field(sub_out.bits, 0, 2, 2), a |-> Field(0, 0, 0, 0),
              top |-> sub_out.bits \div 2^6]
      [] sub_out.tag = "Diff16" ->
             [r |-> Field(sub_out.bits, 8, 5, 16), g |-> Field(sub_out.bits, 4, 4, 8),
              b |-> Field(sub_out.bits, 0, 4, 8), a |-> Field(0, 0, 0, 0),
              top |-> sub_out.bits \div 2^13]
      [] sub_out.tag = "Diff24" ->
             [r |-> Field(sub_out.diff_r, 0, 5, 16), g |-> Field(sub_out.diff_gba, 10, 5, 16),
              b |-> Field(sub_out.diff_gba, 5, 5, 16), a |-> Field(sub_out.diff_gba, 0, 5, 16),
              top |-> (sub_out.diff_r \div 2^5) + (sub_out.diff_gba \div 2^15)]

Decoded(prev, f) == (prev + f.value - f.bias + 256) % 256

C23_BiasRoundTrip ==
    (SubApplied /\ sub_out.tag \in {"Diff8", "Diff16", "Diff24"}) =>
        LET u == Unpacked
        IN  /\ u.r.value = DeltaR + u.r.bias
            /\ u.g.value = DeltaG + u.g.bias
            /\ u.b.value = DeltaB + u.b.bias
            /\ u.a.value = DeltaA + u.a.bias
            /\ u.top = 0
            /\ Decoded(Px_r(sub_rhs), u.r) = Px_r(sub_self)
            /\ Decoded(Px_g(sub_rhs), u.g) = Px_g(sub_self)
            /\ Decoded(Px_b(sub_rhs), u.b) = Px_b(sub_self)
            /\ Decoded(Px_a(sub_rhs), u.a) = Px_a(sub_self)

\* A Diff24 whose fields are 31, 0, 16 and 0.
C23_Witness ==
    /\ DeltaR = 15 /\ DeltaG = -16 /\ DeltaB = 0 /\ DeltaA = -16
    /\ sub_out = [tag |-> "Diff24", diff_r |-> 31, diff_gba |-> 16 * 32]

\* How many Visualize messages are scheduled in q.
Redraws(q) == Cardinality({i \in DOMAIN q : q[i] = MsgVisualize})

Writers ==
    {"UpdateImage", "ToggleChunkVisibility", "MakeAllChunksVisible",
     "MakeAllChunksInvisible"}

(***************************************************************************)
(* C21.  Handling UpdateImage, ToggleChunkVisibility, MakeAllChunksVisible *)
(* or MakeAllChunksInvisible writes the model and schedules a Visualize    *)
(* message, so whenever the image or the visibility configuration is not   *)
(* the one last drawn a Visualize is pending.  InputFileChanged with no    *)
(* file, a failed image load and Visualize leave the image and the         *)
(* configuration as they were.  A toggle negates the flag of its chunk     *)
(* kind only, and a second toggle of the same kind restores the            *)
(* configuration.                                                          *)
(***************************************************************************)
C21_RedrawPending ==
    /\ [](drawn # [img |-> img, config |-> config] => Redraws(mailbox) > 0)
    /\ [][ /\ handled'.msg \in Writers =>
                  /\ Redraws(mailbox') = Redraws(mailbox) + 1
                  /\ handled'.msg = "UpdateImage" =>
                         img' = handled'.arg /\ config' = config
                  /\ handled'.msg = "ToggleChunkVisibility" =>
                         /\ img' = img
                         /\ \A k \in QoiChunk :
                                config'[k] = IF k = handled'.arg THEN ~config[k]
                                             ELSE config[k]
                         /\ toggled.chunk = handled'.arg => config' = toggled.config
                  /\ handled'.msg = "MakeAllChunksVisible" =>
                         img' = img /\ \A k \in QoiChunk : config'[k]
                  /\ handled'.msg = "MakeAllChunksInvisible" =>
                         img' = img /\ \A k \in QoiChunk : ~config'[k]
           /\ (\/ handled' = Message("InputFileChanged", "")
               \/ handled'.msg = "LoadFailed"
               \/ handled'.msg = "Visualize")
              => img' = img /\ config' = config
         ]_vars

\* "Index" was hidden, that was drawn, and a second toggle has shown it
\* again: the configuration is the initial one and its redraw is pending.
C21_Witness ==
    /\ handled = Message("ToggleChunkVisibility", "Index")
    /\ toggled = [chunk |-> "Index", config |-> toggle_visibility(VisConfig_new, "Index")]
    /\ config = VisConfig_new
    /\ drawn = [img |-> img, config |-> toggled.config]
    /\ Redraws(mailbox) = 1

====
